---- MODULE Spec2Model ----
(***************************************************************************)
(* A model of the game-logic engine of PySET (src/main.py): the card       *)
(* algebra (Card, complement), the triple search (find_triples) and the    *)
(* game state machine (SetGame: _deal, _ensure_options, remove_set).       *)
(*                                                                         *)
(* random.sample is modelled by a seeded source: the generator state is    *)
(* drawn once, at construction, from NumSeeds priority orders over the 81  *)
(* cards, and a sample of n cards is the n cards of the draw pile that     *)
(* come first in that order.  Every modelled deal is a deal the program    *)
(* can make; NumSeeds bounds how many of them are explored.                *)
(***************************************************************************)
EXTENDS Integers, Sequences, FiniteSets, TLC

\* ------------------------------------------------------------------ bounds
\* number of generator states (priority orders) the deals are drawn from
NumSeeds == 2
\* the player chooses freely among all sets on the table for this many
\* removals; afterwards the player takes the first set find_triples yields
FreeMoves == 1
\* the other calls take their last argument among this many leading cards of
\* the layout (and one card that is not on the table)
PoolActive == 3
\* the triple search alone is run on lists of at most FTMaxLen cards
FTMaxLen == 5

\* --------------------------------------------------------------- the enums
NumberEnum == <<1, 2, 3>>
ColorEnum == <<"red", "green", "purple">>
ShadingEnum == <<"empty", "filled", "hatched">>
SymbolEnum == <<"squiggle", "diamond", "oval">>

IN_GAME == "in game"
GAME_OVER == "game over"

\* the members of an enumeration, and the 0-based rank of a member
Members(enum) == {enum[i] : i \in 1..Len(enum)}
Ord(enum, v) == (CHOOSE i \in 1..Len(enum) : enum[i] = v) - 1

Range(seq) == {seq[i] : i \in 1..Len(seq)}

\* ---------------------------------------------------------------- the card
Card(number, color, shading, symbol) ==
    [number |-> number, color |-> color, shading |-> shading, symbol |-> symbol]

\* the 81 cards, as SetGame.__init__ builds the draw pile
Universe ==
    {Card(n, c, sh, sy) : n \in Members(NumberEnum), c \in Members(ColorEnum),
                          sh \in Members(ShadingEnum), sy \in Members(SymbolEnum)}

\* the value complement returns for two equal cards (Python's None)
NoCard == [number |-> 0, color |-> "None", shading |-> "None", symbol |-> "None"]

\* the one member of the enumeration that is neither val1 nor val2
Third(enum, val1, val2) == CHOOSE v \in Members(enum) \ {val1, val2} : TRUE

\* Prop, had complement copied the property of its first card
PropOfSelf(enum, val1, val2) == val1

Prop(enum, val1, val2) == IF val1 = val2 THEN val1 ELSE Third(enum, val1, val2)

complement(self, other) ==
    IF self = other
    THEN NoCard
    ELSE Card(Prop(NumberEnum, self.number, other.number),
              Prop(ColorEnum, self.color, other.color),
              Prop(ShadingEnum, self.shading, other.shading),
              Prop(SymbolEnum, self.symbol, other.symbol))

\* no exception raised
NoError == ""

\* Card.properties
properties == <<"number", "color", "shading", "symbol">>

\* a member of an enumeration: type(member).__name__.lower() and the value
Member(enum, value) == [enum |-> enum, value |-> value]

\* getattr(card, p): the member held by property p of the card
GetAttr(card, p) == Member(p, card[p])

SHORTHAND_MAP ==
    ("1" :> Member("number", 1)) @@ ("2" :> Member("number", 2))
    @@ ("3" :> Member("number", 3))
    @@ ("r" :> Member("color", "red")) @@ ("g" :> Member("color", "green"))
    @@ ("p" :> Member("color", "purple"))
    @@ ("e" :> Member("shading", "empty")) @@ ("f" :> Member("shading", "filled"))
    @@ ("h" :> Member("shading", "hatched"))
    @@ ("d" :> Member("symbol", "diamond")) @@ ("s" :> Member("symbol", "squiggle"))
    @@ ("o" :> Member("symbol", "oval"))

\* REVERSE_SHORTHAND[member]: {v: k for k, v in SHORTHAND_MAP.items()}, the
\* last key that maps to the member
REVERSE_SHORTHAND(member) ==
    CHOOSE k \in DOMAIN SHORTHAND_MAP : SHORTHAND_MAP[k] = member

\* to_shorthand, had it joined the characters in reverse order of the properties
to_shorthand_reversed(self) ==
    [i \in 1..Len(properties) |->
        REVERSE_SHORTHAND(GetAttr(self, properties[Len(properties) + 1 - i]))]

\* Card.to_shorthand(): a string is the sequence of its characters
to_shorthand(self) ==
    [i \in 1..Len(properties) |-> REVERSE_SHORTHAND(GetAttr(self, properties[i]))]

\* Card.from_shorthand(shorthand): the card built, or the exception raised.
\* params maps the type name of each character's member to the member, a
\* later character replacing an earlier one of the same type; Card(**params)
\* raises TypeError when a property is missing.
from_shorthand(shorthand) ==
    IF Len(shorthand) # 4
    THEN [raised |-> "invalid length", card |-> NoCard]
    ELSE IF \E i \in 1..Len(shorthand) : shorthand[i] \notin DOMAIN SHORTHAND_MAP
    THEN [raised |-> "KeyError", card |-> NoCard]
    ELSE LET names == {SHORTHAND_MAP[shorthand[i]].enum : i \in 1..Len(shorthand)}
             last(name) == CHOOSE i \in 1..Len(shorthand) :
                              /\ SHORTHAND_MAP[shorthand[i]].enum = name
                              /\ \A k \in (i + 1)..Len(shorthand) :
                                    SHORTHAND_MAP[shorthand[k]].enum # name
             params == [name \in names |-> SHORTHAND_MAP[shorthand[last(name)]].value]
         IN  IF names # Range(properties)
             THEN [raised |-> "TypeError", card |-> NoCard]
             ELSE [raised |-> NoError,
                   card |-> Card(params["number"], params["color"],
                                 params["shading"], params["symbol"])]

\* complement, tabulated over the universe
ComplementOf == [a \in Universe |-> [b \in Universe |-> complement(a, b)]]

\* ------------------------------------------------------------ find_triples
\* The generator visits the pairs (i, j), i < j, in the order of its two
\* loops; PairKey numbers them in that order.
PairKey(card_list, p) == p[1] * (Len(card_list) + 1) + p[2]

Pairs(card_list) ==
    UNION {{<<i, j>> : j \in (i + 1)..Len(card_list)} : i \in 1..Len(card_list)}

\* DuplicatePairs, had the search compared only neighbouring cards
DuplicatePairsAdjacent(card_list) ==
    {p \in Pairs(card_list) : p[2] = p[1] + 1 /\ card_list[p[1]] = card_list[p[2]]}

\* the pairs of equal cards: the generator raises at the first one it visits
DuplicatePairs(card_list) == {p \in Pairs(card_list) : card_list[p[1]] = card_list[p[2]]}

\* Hits, had the search looked for the third card in the whole list
HitsAnywhere(card_list) ==
    {p \in Pairs(card_list) :
        \E k \in 1..Len(card_list) :
            card_list[k] = ComplementOf[card_list[p[1]]][card_list[p[2]]]}

\* the visited pairs whose complement lies further down the list; the
\* generator visits the pairs that come before the first pair of equal cards
Hits(card_list) ==
    LET dups == {PairKey(card_list, d) : d \in DuplicatePairs(card_list)}
        stop == IF dups = {}
                THEN (Len(card_list) + 1) * (Len(card_list) + 1)
                ELSE CHOOSE x \in dups : \A y \in dups : x <= y
    IN  {p \in Pairs(card_list) :
            /\ PairKey(card_list, p) < stop
            /\ \E k \in (p[2] + 1)..Len(card_list) :
                  card_list[k] = ComplementOf[card_list[p[1]]][card_list[p[2]]]}

\* the generator run to its end: the triples it yields, in order, and whether
\* it stops by raising on a duplicate card
TriplesOf(card_list) ==
    LET hits == Hits(card_list)
        nth(n) == CHOOSE p \in hits :
                      Cardinality({q \in hits : PairKey(card_list, q)
                                                <= PairKey(card_list, p)}) = n
    IN  [yielded |-> [n \in 1..Cardinality(hits) |->
                         LET p == nth(n)
                         IN  <<card_list[p[1]], card_list[p[2]],
                               ComplementOf[card_list[p[1]]][card_list[p[2]]]>>],
         raised |-> DuplicatePairs(card_list) # {}]

find_triples(card_list) == TriplesOf(card_list)

\* ----------------------------------------------------------- random.sample
\* position of a card in the order itertools.product enumerates the universe
CardIndex(card) ==
    27 * Ord(NumberEnum, card.number) + 9 * Ord(ColorEnum, card.color)
    + 3 * Ord(ShadingEnum, card.shading) + Ord(SymbolEnum, card.symbol)

\* a family of 20 cards that holds no set (a maximal cap)
InCap(card) ==
    LET x1 == Ord(NumberEnum, card.number)
        x2 == Ord(ColorEnum, card.color)
        x3 == Ord(ShadingEnum, card.shading)
        x4 == Ord(SymbolEnum, card.symbol)
    IN  /\ x1 + x2 + x3 + x4 > 0
        /\ (x1 * x1 + x2 * x2 + x3 * x3 + 2 * x4 * x4) % 3 = 0

\* the priority of a card under a seed: odd seeds shuffle the universe, even
\* seeds shuffle it with the cards of the cap first
Priority(s, card) ==
    LET shuffled == (CardIndex(card) * (3 * (s \div 2) + 1) + s) % 81
    IN  IF s % 2 = 0 /\ ~InCap(card) THEN 81 + shuffled ELSE shuffled

PriorityOf == [s \in 1..NumSeeds |-> [card \in Universe |-> Priority(s, card)]]

\* the universe in the order of each seed
Shuffled ==
    [s \in 1..NumSeeds |->
        [r \in 1..81 |->
            CHOOSE c \in Universe :
                Cardinality({d \in Universe : PriorityOf[s][d] < PriorityOf[s][c]}) = r - 1]]

\* random.sample, had it drawn with replacement
SampleWithReplacement(population, n, s) ==
    LET first == SelectSeq(Shuffled[s], LAMBDA c : c \in population)[1]
    IN  [i \in 1..n |-> first]

\* random.sample(population, n), n <= len(population), under seed s: the
\* first n cards of the population in the order of the seed
Sample(population, n, s) ==
    SubSeq(SelectSeq(Shuffled[s], LAMBDA c : c \in population), 1, n)

\* ------------------------------------------------------------------- state
VARIABLES
    state,      \* SetGame.state
    draw,       \* SetGame._draw, a set of cards
    active,     \* SetGame._active, a list of cards
    discard,    \* SetGame._discard, a list of 3-card sets
    seed,       \* the state of the random source the deals are sampled with
    result,     \* how the last call ended: "new", "ok" or the error raised
    deals,      \* the _deal calls the last call made, in order
    args,       \* the arguments of the last remove_set call
    cards,      \* the argument of the last stand-alone find_triples call
    found,      \* what that call produced
    call,       \* the last stand-alone call of a Card method, with its arguments
    returned    \* what that call returned

game_vars == <<state, draw, active, discard>>
card_vars == <<call, returned>>
vars == <<state, draw, active, discard, seed, result, deals, args, cards, found,
          call, returned>>

\* no Card method called on its own, and nothing returned yet
NoCall == [method |-> "none", args |-> <<>>]
NotReturned == [called |-> FALSE]

\* the outcome of a find_triples call that was never made
NotCalled == [yielded |-> <<>>, raised |-> FALSE, called |-> FALSE]

\* ------------------------------------------------------------- list helpers
\* list.index(card), 0-based
Index(list, card) == (CHOOSE i \in 1..Len(list) :
                         /\ list[i] = card
                         /\ \A k \in 1..(i - 1) : list[k] # card) - 1

\* list.pop(pos), 0-based
Pop(list, pos) == SubSeq(list, 1, pos) \o SubSeq(list, pos + 2, Len(list))

\* list.insert(pos, card), 0-based; a position past the end appends
Insert(list, pos, card) ==
    IF pos >= Len(list)
    THEN Append(list, card)
    ELSE SubSeq(list, 1, pos) \o <<card>> \o SubSeq(list, pos + 1, Len(list))

\* sorted(S) for a set of integers
RECURSIVE Sorted(_)
Sorted(S) ==
    IF S = {}
    THEN <<>>
    ELSE LET least == CHOOSE x \in S : \A y \in S : x <= y
         IN  <<least>> \o Sorted(S \ {least})

\* for pos in reversed(replace_pos): list.pop(pos)
RECURSIVE PopAll(_, _, _)
PopAll(list, replace_pos, k) ==
    IF k = 0 THEN list ELSE PopAll(Pop(list, replace_pos[k]), replace_pos, k - 1)

\* InsertAll, had the cards been put at the end of the list
InsertAllAtEnd(list, replace_pos, deal, k) == list \o deal

\* for pos, card in zip(replace_pos, deal): list.insert(pos, card)
RECURSIVE InsertAll(_, _, _, _)
InsertAll(list, replace_pos, deal, k) ==
    IF k > Len(replace_pos) \/ k > Len(deal)
    THEN list
    ELSE InsertAll(Insert(list, replace_pos[k], deal[k]), replace_pos, deal, k + 1)

\* ----------------------------------------------------------------- SetGame
\* A game is the record of its fields, the log of its deals and the
\* exception, if any, that ended the running call (NoError for none).

\* _deal, had it left the dealt cards in the draw pile
_deal_keeps_pile(g, n, replace, replace_pos, s) ==
    LET deal == Sample(g.draw, n, s)
    IN  [g EXCEPT
           !.active = IF replace
                      THEN InsertAll(g.active, replace_pos, deal, 1)
                      ELSE g.active \o deal,
           !.deals = Append(g.deals,
                            [n |-> n, replace |-> replace, pos |-> replace_pos,
                             deal |-> deal, pile |-> Cardinality(g.draw),
                             before |-> g.active])]

\* _deal, had it sampled one card too few
_deal_short(g, n, replace, replace_pos, s) ==
    LET deal == Sample(g.draw, n - 1, s)
    IN  [g EXCEPT
           !.active = IF replace
                      THEN InsertAll(g.active, replace_pos, deal, 1)
                      ELSE g.active \o deal,
           !.draw = g.draw \ Range(deal),
           !.deals = Append(g.deals,
                            [n |-> n, replace |-> replace, pos |-> replace_pos,
                             deal |-> deal, pile |-> Cardinality(g.draw),
                             before |-> g.active])]

\* SetGame._deal(n, replace_pos); replace is FALSE for replace_pos = None
_deal(g, n, replace, replace_pos, s) ==
    IF n > Cardinality(g.draw)
    THEN [g EXCEPT !.raised = "Sample larger than population"]
    ELSE LET deal == Sample(g.draw, n, s)
         IN  [g EXCEPT
                !.active = IF replace
                           THEN InsertAll(g.active, replace_pos, deal, 1)
                           ELSE g.active \o deal,
                !.draw = g.draw \ Range(deal),
                !.deals = Append(g.deals,
                                 [n |-> n, replace |-> replace, pos |-> replace_pos,
                                  deal |-> deal, pile |-> Cardinality(g.draw),
                                  before |-> g.active])]

RECURSIVE _ensure_options(_, _)

\* _ensure_options, had it ended the game without looking at the draw pile
_ensure_options_gives_up(g, s) ==
    IF Len(find_triples(g.active).yielded) # 0 THEN g ELSE [g EXCEPT !.state = GAME_OVER]

\* _ensure_options, had it returned without ending the game
_ensure_options_never_ends(g, s) ==
    IF Len(find_triples(g.active).yielded) # 0 \/ Cardinality(g.draw) = 0
    THEN g
    ELSE _ensure_options(_deal(g, 3, FALSE, <<>>, s), s)

\* _ensure_options, had it dealt one card at a time
_ensure_options_one_card(g, s) ==
    IF g.raised # NoError
    THEN g
    ELSE LET triples == find_triples(g.active)
         IN  IF triples.raised
             THEN [g EXCEPT !.raised = "duplicate card found"]
             ELSE IF Len(triples.yielded) # 0
             THEN g
             ELSE IF Cardinality(g.draw) = 0
             THEN [g EXCEPT !.state = GAME_OVER]
             ELSE _ensure_options(_deal(g, 1, FALSE, <<>>, s), s)

\* _ensure_options, had it dealt six cards at a time
_ensure_options_six_cards(g, s) ==
    IF g.raised # NoError
    THEN g
    ELSE LET triples == find_triples(g.active)
         IN  IF triples.raised
             THEN [g EXCEPT !.raised = "duplicate card found"]
             ELSE IF Len(triples.yielded) # 0
             THEN g
             ELSE IF Cardinality(g.draw) = 0
             THEN [g EXCEPT !.state = GAME_OVER]
             ELSE _ensure_options(_deal(g, 6, FALSE, <<>>, s), s)

\* SetGame._ensure_options()
_ensure_options(g, s) ==
    IF g.raised # NoError
    THEN g
    ELSE LET triples == find_triples(g.active)
         IN  IF triples.raised
             THEN [g EXCEPT !.raised = "duplicate card found"]
             ELSE IF Len(triples.yielded) # 0
             THEN g
             ELSE IF Cardinality(g.draw) = 0
             THEN [g EXCEPT !.state = GAME_OVER]
             ELSE _ensure_options(_deal(g, 3, FALSE, <<>>, s), s)

\* __init__, had it not run _ensure_options
NewGameNoEnsure(s) ==
    _deal([state |-> IN_GAME, draw |-> Universe, active |-> <<>>,
           discard |-> <<>>, deals |-> <<>>, raised |-> NoError], 12, FALSE, <<>>, s)

\* __init__, had it dealt 13 cards
NewGameThirteen(s) ==
    LET g0 == [state |-> IN_GAME, draw |-> Universe, active |-> <<>>,
               discard |-> <<>>, deals |-> <<>>, raised |-> NoError]
    IN  _ensure_options(_deal(g0, 13, FALSE, <<>>, s), s)

\* SetGame.__init__()
NewGame(s) ==
    LET g0 == [state |-> IN_GAME, draw |-> Universe, active |-> <<>>,
               discard |-> <<>>, deals |-> <<>>, raised |-> NoError]
    IN  _ensure_options(_deal(g0, 12, FALSE, <<>>, s), s)

\* Removal, had it not run _ensure_options
RemovalNoEnsure(g, a, b, c, s) ==
    LET triple == {a, b, c}
        replace_pos == Sorted({Index(g.active, card) : card \in triple})
        removed == [g EXCEPT !.discard = Append(g.discard, triple),
                             !.active = PopAll(g.active, replace_pos, Len(replace_pos))]
    IN  IF Cardinality(removed.draw) > 0 /\ Len(removed.active) < 12
        THEN _deal(removed, 3, TRUE, replace_pos, s)
        ELSE removed

\* Removal, had it not dealt replacements
RemovalNoReplacement(g, a, b, c, s) ==
    LET triple == {a, b, c}
        replace_pos == Sorted({Index(g.active, card) : card \in triple})
        removed == [g EXCEPT !.discard = Append(g.discard, triple),
                             !.active = PopAll(g.active, replace_pos, Len(replace_pos))]
    IN  _ensure_options(removed, s)

\* Removal, had it put the solved set at the head of the discard list
RemovalPrepends(g, a, b, c, s) ==
    LET triple == {a, b, c}
        replace_pos == Sorted({Index(g.active, card) : card \in triple})
        removed == [g EXCEPT !.discard = <<triple>> \o g.discard,
                             !.active = PopAll(g.active, replace_pos, Len(replace_pos))]
        dealt == IF Cardinality(removed.draw) > 0 /\ Len(removed.active) < 12
                 THEN _deal(removed, 3, TRUE, replace_pos, s)
                 ELSE removed
    IN  _ensure_options(dealt, s)

\* the body of remove_set once its four checks have passed
Removal(g, a, b, c, s) ==
    LET triple == {a, b, c}
        replace_pos == Sorted({Index(g.active, card) : card \in triple})
        removed == [g EXCEPT !.discard = Append(g.discard, triple),
                             !.active = PopAll(g.active, replace_pos, Len(replace_pos))]
        dealt == IF Cardinality(removed.draw) > 0 /\ Len(removed.active) < 12
                 THEN _deal(removed, 3, TRUE, replace_pos, s)
                 ELSE removed
    IN  _ensure_options(dealt, s)

\* Refusal, had it not compared the complement
RefusalNoSetCheck(a, b, c) ==
    IF state = GAME_OVER THEN "game is over"
    ELSE IF Cardinality({a, b, c}) # 3 THEN "cards are not unique"
    ELSE IF \E card \in {a, b, c} : card \notin Range(active) THEN "card is not active"
    ELSE NoError

\* Refusal, had it not looked at the lifecycle state
RefusalNoGameOver(a, b, c) ==
    IF Cardinality({a, b, c}) # 3 THEN "cards are not unique"
    ELSE IF \E card \in {a, b, c} : card \notin Range(active) THEN "card is not active"
    ELSE IF complement(a, b) # c THEN "cards do not form a set"
    ELSE NoError

\* Refusal, had it not counted the cards of the triple
RefusalNoUniqueCheck(a, b, c) ==
    IF state = GAME_OVER THEN "game is over"
    ELSE IF \E card \in {a, b, c} : card \notin Range(active) THEN "card is not active"
    ELSE IF complement(a, b) # c THEN "cards do not form a set"
    ELSE NoError

\* the error remove_set(a, b, c) raises in its checks, NoError if none
Refusal(a, b, c) ==
    IF state = GAME_OVER THEN "game is over"
    ELSE IF Cardinality({a, b, c}) # 3 THEN "cards are not unique"
    ELSE IF \E card \in {a, b, c} : card \notin Range(active) THEN "card is not active"
    ELSE IF complement(a, b) # c THEN "cards do not form a set"
    ELSE NoError

Current == [state |-> state, draw |-> draw, active |-> active,
            discard |-> discard, deals |-> <<>>, raised |-> NoError]

\* SetGame.remove_set(a, b, c)
remove_set(a, b, c) ==
    /\ UNCHANGED <<seed, cards, found, call, returned>>
    /\ args' = <<a, b, c>>
    /\ IF Refusal(a, b, c) # NoError
       THEN /\ result' = Refusal(a, b, c)
            /\ deals' = <<>>
            /\ UNCHANGED game_vars
       ELSE LET g == Removal(Current, a, b, c, seed)
            IN  /\ state' = g.state
                /\ draw' = g.draw
                /\ active' = g.active
                /\ discard' = g.discard
                /\ deals' = g.deals
                /\ result' = IF g.raised = NoError THEN "ok" ELSE g.raised

\* -------------------------------------------------------- the player's calls
\* the sets the player may take: any set on the table during the first
\* FreeMoves removals, the first one find_triples yields afterwards
Picks ==
    LET yielded == find_triples(active).yielded
    IN  IF Len(discard) < FreeMoves
        THEN Range(yielded)
        ELSE {yielded[i] : i \in 1..(IF Len(yielded) = 0 THEN 0 ELSE 1)}

\* the universe in the order itertools.product enumerates it
Deck == [r \in 1..81 |-> CHOOSE c \in Universe : CardIndex(c) = r - 1]

\* the first card of the universe that is not on the table
Outsider ==
    Deck[CHOOSE r \in 1..81 :
            /\ Deck[r] \notin Range(active)
            /\ \A q \in 1..(r - 1) : Deck[q] \in Range(active)]

\* the cards the other calls are made with: the leading cards of the table
\* and one card that is not on it
Pool == {active[i] : i \in 1..(IF Len(active) < PoolActive THEN Len(active) ELSE PoolActive)}
        \cup {Outsider}

Leading == IF Len(active) < 1 THEN Outsider ELSE active[1]
Second == IF Len(active) < 2 THEN Outsider ELSE active[2]

\* the two leading cards with the card that completes them, on the table or not
Completed == IF Leading = Second THEN {} ELSE {<<Leading, Second, complement(Leading, Second)>>}

\* the calls the player makes: the sets taken, and calls with the two leading
\* cards, with one card twice, and with the completing card
Inputs == Picks \cup {<<Leading, Second, c>> : c \in Pool}
                \cup {<<Leading, c, c>> : c \in Pool} \cup Completed

\* --------------------------------------------------------- the game machine
Init ==
    /\ seed \in 1..NumSeeds
    /\ LET g == NewGame(seed)
       IN  /\ state = g.state
           /\ draw = g.draw
           /\ active = g.active
           /\ discard = g.discard
           /\ deals = g.deals
           /\ result = IF g.raised = NoError THEN "new" ELSE g.raised
    /\ args = <<>>
    /\ cards = <<>>
    /\ found = NotCalled
    /\ call = NoCall
    /\ returned = NotReturned

RemoveSet == \E input \in Inputs : remove_set(input[1], input[2], input[3])

Next == RemoveSet

Spec == Init /\ [][Next]_vars

\* ------------------------------------------------- the triple search alone
\* six cards: two sets that share a card, and a card that completes no pair
\* of them within the six
FTPool ==
    {card \in Universe :
        \/ /\ card.number = 1
           /\ card.color = "red"
           /\ (card.shading = "empty" \/ card.symbol = "squiggle")
        \/ card = Card(2, "green", "filled", "diamond")}

FTInputs == UNION {[1..n -> FTPool] : n \in 0..FTMaxLen}

InitFT ==
    /\ cards \in FTInputs
    /\ found = NotCalled
    /\ state = IN_GAME
    /\ draw = Universe
    /\ active = <<>>
    /\ discard = <<>>
    /\ seed = 1
    /\ result = "none"
    /\ deals = <<>>
    /\ args = <<>>
    /\ call = NoCall
    /\ returned = NotReturned

\* list(find_triples(cards)), as SetGameView.redraw calls it
FindTriples ==
    /\ ~found.called
    /\ found' = [yielded |-> find_triples(cards).yielded,
                 raised |-> find_triples(cards).raised,
                 called |-> TRUE]
    /\ UNCHANGED <<state, draw, active, discard, seed, result, deals, args, cards,
                   call, returned>>

NextFT == FindTriples

SpecFT == InitFT /\ [][NextFT]_vars

\* -------------------------------------------------- the Card methods alone
\* the longest string from_shorthand is called with
ShMaxLen == 4

\* the characters of the strings: the twelve of SHORTHAND_MAP and one that
\* is not in it
Alphabet == DOMAIN SHORTHAND_MAP \cup {"x"}

ShorthandInputs == UNION {[1..n -> Alphabet] : n \in 0..ShMaxLen}

InitCard ==
    /\ \/ \E a, b \in Universe : call = [method |-> "complement", args |-> <<a, b>>]
       \/ \E a, b \in Universe : call = [method |-> "to_shorthand", args |-> <<a, b>>]
       \/ \E sh \in ShorthandInputs : call = [method |-> "from_shorthand", args |-> <<sh>>]
    /\ returned = NotReturned
    /\ cards = <<>>
    /\ found = NotCalled
    /\ state = IN_GAME
    /\ draw = Universe
    /\ active = <<>>
    /\ discard = <<>>
    /\ seed = 1
    /\ result = "none"
    /\ deals = <<>>
    /\ args = <<>>

card_frame == UNCHANGED <<state, draw, active, discard, seed, result, deals, args,
                          cards, found, call>>

\* a.complement(b), and b.complement(a)
Complement ==
    /\ call.method = "complement"
    /\ ~returned.called
    /\ returned' = [called |-> TRUE,
                    forth |-> complement(call.args[1], call.args[2]),
                    back |-> complement(call.args[2], call.args[1])]
    /\ card_frame

\* a.to_shorthand() and b.to_shorthand(), and the first string decoded again
ToShorthand ==
    /\ call.method = "to_shorthand"
    /\ ~returned.called
    /\ returned' = [called |-> TRUE,
                    first |-> to_shorthand(call.args[1]),
                    second |-> to_shorthand(call.args[2]),
                    decoded |-> from_shorthand(to_shorthand(call.args[1]))]
    /\ card_frame

\* Card.from_shorthand(sh), and the card it built encoded again
FromShorthand ==
    /\ call.method = "from_shorthand"
    /\ ~returned.called
    /\ LET decoded == from_shorthand(call.args[1])
       IN  returned' = [called |-> TRUE,
                        decoded |-> decoded,
                        encoded |-> IF decoded.raised = NoError
                                    THEN to_shorthand(decoded.card)
                                    ELSE <<>>]
    /\ card_frame

NextCard == Complement \/ ToShorthand \/ FromShorthand

SpecCard == InitCard /\ [][NextCard]_vars

\* ------------------------------------------------------------- vocabulary
\* the cards of the discard list
Flatten(sets) == UNION {sets[i] : i \in 1..Len(sets)}

SameOrDifferent(x, y, z) == (x = y /\ y = z) \/ (x # y /\ y # z /\ x # z)

\* the rule of the game: on every dimension all the same or all different
ValidSet(a, b, c) ==
    /\ SameOrDifferent(a.number, b.number, c.number)
    /\ SameOrDifferent(a.color, b.color, c.color)
    /\ SameOrDifferent(a.shading, b.shading, c.shading)
    /\ SameOrDifferent(a.symbol, b.symbol, c.symbol)

\* three cards of the list, at three different places, form a valid set
ExistsSet(list) ==
    \E i \in 1..Len(list) : \E j \in (i + 1)..Len(list) : \E k \in (j + 1)..Len(list) :
        ValidSet(list[i], list[j], list[k])

NoDuplicates(list) == \A i, j \in 1..Len(list) : i # j => list[i] # list[j]

\* the 81 valid encodings: four characters, one per dimension in the order
\* number, color, shading, symbol
ValidEncoding(sh) ==
    /\ Len(sh) = 4
    /\ sh[1] \in {"1", "2", "3"}
    /\ sh[2] \in {"r", "g", "p"}
    /\ sh[3] \in {"e", "f", "h"}
    /\ sh[4] \in {"d", "s", "o"}

\* A player who keeps taking sets: weak fairness of the successful remove_set
\* call, WF_vars(a step that ends "ok"), with its enabling condition, a game
\* IN_GAME with a set on the table, written out.
PlayerKeepsRemoving ==
    \/ []<>~(state = IN_GAME /\ ExistsSet(active))
    \/ []<><<result' = "ok">>_vars

FairSpec == Init /\ [][Next]_vars /\ PlayerKeepsRemoving

TypeOK ==
    /\ state \in {IN_GAME, GAME_OVER}
    /\ draw \subseteq Universe
    /\ active \in Seq(Universe)
    /\ \A i \in 1..Len(discard) : discard[i] \subseteq Universe

\* ------------------------------------------------------------------ claims

\* C1: after construction and after every remove_set call, the draw pile, the
\* active layout and the flattened discard list are pairwise disjoint, hold
\* no card twice, and together are the 81 cards.
C1_Partition ==
    /\ draw \cap Range(active) = {}
    /\ draw \cap Flatten(discard) = {}
    /\ Range(active) \cap Flatten(discard) = {}
    /\ draw \cup Range(active) \cup Flatten(discard) = Universe
    /\ Cardinality(draw) + Len(active) + 3 * Len(discard) = 81
    /\ Cardinality(Universe) = 81

\* C1 witness: sets have been removed, replacements dealt, and a call failed
C1_Witness ==
    /\ Len(discard) >= 2
    /\ result \notin {"new", "ok"}
    /\ draw # {}

\* C2: the game is GAME_OVER only with an empty draw pile and no valid triple
\* on the table, and a game that is GAME_OVER stays GAME_OVER.
C2_GameOverFinal ==
    /\ [](state = GAME_OVER => draw = {} /\ ~ExistsSet(active))
    /\ [][state = GAME_OVER => state' = GAME_OVER]_vars

\* C2 witness: the game ended with cards left on the table, and was called again
C2_Witness ==
    /\ state = GAME_OVER
    /\ Len(active) > 0
    /\ result = "game is over"

\* C3: while the game is IN_GAME a valid triple exists on the table.
C3_Replenished == state = IN_GAME => ExistsSet(active)

\* C3 witness: a removal whose replacement cards brought no set, so that the
\* replenishment rule dealt again
C3_Witness ==
    /\ state = IN_GAME
    /\ result = "ok"
    /\ Len(deals) >= 2

\* C4 as stated: a new game has exactly 12 active cards, with a valid triple.
C4_ExactlyTwelve == result = "new" => Len(active) = 12 /\ ExistsSet(active)

\* C4 as amended: a new game has 12 active cards when the 12 cards first dealt
\* hold a valid triple, and otherwise 15, 18 or 21, three more for every
\* batch the replenishment rule had to deal; a valid triple exists among them.
C4_TwelveOrMore ==
    result = "new" =>
        /\ Len(active) \in {12, 15, 18, 21}
        /\ ExistsSet(active)
        /\ \A n \in {12, 15, 18} : n < Len(active) => ~ExistsSet(SubSeq(active, 1, n))

\* C4 witness: a new game whose first 12 cards held no set
C4_Witness == result = "new" /\ Len(active) > 12

\* C5: a successful remove_set(a, b, c) takes exactly a, b and c off the
\* table, appends the one entry {a, b, c} to discard and, if the draw pile is
\* non-empty and fewer than 12 cards are left on the table, first deals
\* exactly 3 cards of the draw pile onto the table.
C5_Removal ==
    [][(/\ state = IN_GAME
        /\ Cardinality(Range(args')) = 3
        /\ Range(args') \subseteq Range(active)
        /\ ValidSet(args'[1], args'[2], args'[3]))
       => /\ result' = "ok"
          /\ discard' = Append(discard, Range(args'))
          /\ Range(active) \ Range(active') = Range(args')
          /\ (draw # {} /\ Len(active) - 3 < 12)
             => /\ Len(deals') >= 1
                /\ deals'[1].n = 3
                /\ Len(deals'[1].deal) = 3
                /\ Cardinality(Range(deals'[1].deal)) = 3
                /\ Range(deals'[1].deal) \subseteq draw
                /\ Range(deals'[1].deal) \subseteq Range(active')
                /\ Range(deals'[1].deal) \cap draw' = {}
                /\ Range(deals'[1].before) = Range(active) \ Range(args')
                /\ \A n \in 2..Len(deals') : ~ExistsSet(deals'[n].before)
    ]_vars

\* C5 witness: a set was removed and three replacements dealt
C5_Witness ==
    /\ result = "ok"
    /\ Len(deals) >= 1
    /\ deals[1].replace
    /\ Len(discard) >= 1

\* C6: remove_set with three distinct active cards that are not a set fails
\* with the invalid-set error and changes neither the layout, the draw pile,
\* the discard list nor the lifecycle state.
C6_InvalidSet ==
    [][(/\ state = IN_GAME
        /\ Cardinality(Range(args')) = 3
        /\ Range(args') \subseteq Range(active)
        /\ complement(args'[1], args'[2]) # args'[3])
       => /\ result' = "cards do not form a set"
          /\ UNCHANGED <<active, draw, discard, state>>
    ]_vars

\* C6 witness: a call was refused because its cards are not a set
C6_Witness == result = "cards do not form a set" /\ state = IN_GAME

\* C7: once the game is GAME_OVER every remove_set call fails with the
\* game-over error and changes nothing.
C7_GameOverRefuses ==
    [][state = GAME_OVER
       => /\ result' = "game is over"
          /\ UNCHANGED <<draw, active, discard, state>>
    ]_vars

\* C7 witness: a call made after the end of the game was refused
C7_Witness ==
    /\ state = GAME_OVER
    /\ result = "game is over"
    /\ deals = <<>>

\* C8: a player who keeps removing sets reaches GAME_OVER, with the draw pile
\* empty and no set on the table, after at most 27 removals.
C8_GameEnds ==
    /\ <>(state = GAME_OVER /\ draw = {} /\ ~ExistsSet(active))
    /\ [](Len(discard) <= 27)

\* C8 witness: the game ended after the draw pile was played out
C8_Witness ==
    /\ state = GAME_OVER
    /\ draw = {}
    /\ Len(discard) >= 20

\* C9: whenever the draw pile is non-empty the layout holds at least 12 cards.
C9_AtLeastTwelve == draw # {} => Len(active) >= 12

\* C9 witness: a removal that left fewer than 12 cards was topped up
C9_Witness ==
    /\ result = "ok"
    /\ draw # {}
    /\ Len(deals) >= 1
    /\ Len(deals[1].before) < 12
    /\ Len(active) >= 12

\* C10: on a duplicate-free list find_triples yields the valid sets of the
\* list, each once, as (card[i], card[j], card[k]) with i < j < k, and no
\* yielded triple holds a card twice.
C10_FindTriples ==
    (found.called /\ NoDuplicates(cards)) =>
        /\ ~found.raised
        /\ \A n \in 1..Len(found.yielded) :
              /\ \E i \in 1..Len(cards) : \E j \in (i + 1)..Len(cards) :
                    \E k \in (j + 1)..Len(cards) :
                       found.yielded[n] = <<cards[i], cards[j], cards[k]>>
              /\ ValidSet(found.yielded[n][1], found.yielded[n][2], found.yielded[n][3])
              /\ Cardinality(Range(found.yielded[n])) = 3
        /\ \A m, n \in 1..Len(found.yielded) :
              m # n => Range(found.yielded[m]) # Range(found.yielded[n])
        /\ \A i \in 1..Len(cards) : \A j \in (i + 1)..Len(cards) :
              \A k \in (j + 1)..Len(cards) :
                 ValidSet(cards[i], cards[j], cards[k])
                 => \E n \in 1..Len(found.yielded) :
                       found.yielded[n] = <<cards[i], cards[j], cards[k]>>

\* C10 witness: a duplicate-free list holding two sets was searched
C10_Witness ==
    /\ found.called
    /\ NoDuplicates(cards)
    /\ Len(found.yielded) >= 2

\* C11: find_triples, run to its end, raises the duplicate-card error
\* whenever two elements of its input, at any two positions, are equal cards.
C11_DuplicateRaises ==
    (found.called /\ \E i, j \in 1..Len(cards) : i # j /\ cards[i] = cards[j])
        => found.raised

\* C11 witness: the search of a list whose only equal cards are its first and
\* its last, with a card between them, raised
C11_Witness ==
    /\ found.called
    /\ found.raised
    /\ Len(cards) >= 3
    /\ cards[1] = cards[Len(cards)]
    /\ NoDuplicates(SubSeq(cards, 1, Len(cards) - 1))

\* C12: the active layout never holds a card twice, and no search the engine
\* runs over it (in a new game, in replenishment, in remove_set) raises the
\* duplicate-card error.
C12_NoDuplicateActive ==
    /\ NoDuplicates(active)
    /\ result # "duplicate card found"

\* C12 witness: a layout that was searched after replacement cards were
\* inserted into it, several removals into the game
C12_Witness ==
    /\ result = "ok"
    /\ Len(discard) >= 3
    /\ Len(deals) >= 1
    /\ deals[1].replace
    /\ Len(active) >= 12

\* C13: for distinct cards a and b, complement(a, b) = complement(b, a), the
\* cards a, b and complement(a, b) are pairwise distinct, and on each of the
\* four dimensions their values are all the same or all different.
C13_Complement ==
    (call.method = "complement" /\ returned.called /\ call.args[1] # call.args[2]) =>
        /\ returned.forth = returned.back
        /\ returned.forth \in Universe
        /\ Cardinality({call.args[1], call.args[2], returned.forth}) = 3
        /\ ValidSet(call.args[1], call.args[2], returned.forth)

\* C13 witness: the complement of two cards that agree on two dimensions and
\* differ on the two others was computed
C13_Witness ==
    /\ call.method = "complement"
    /\ returned.called
    /\ call.args[1].number = call.args[2].number
    /\ call.args[1].color = call.args[2].color
    /\ call.args[1].shading # call.args[2].shading
    /\ call.args[1].symbol # call.args[2].symbol
    /\ returned.forth \in Universe

\* C14: from_shorthand(to_shorthand(x)) = x for every card x, to_shorthand
\* gives different cards different strings, each of 4 characters, and
\* to_shorthand(from_shorthand(s)) = s for each of the 81 valid encodings s.
C14_RoundTrip ==
    /\ (call.method = "to_shorthand" /\ returned.called) =>
          /\ Len(returned.first) = 4
          /\ ValidEncoding(returned.first)
          /\ returned.decoded.raised = NoError
          /\ returned.decoded.card = call.args[1]
          /\ (returned.first = returned.second) => (call.args[1] = call.args[2])
    /\ (call.method = "from_shorthand" /\ returned.called
           /\ ValidEncoding(call.args[1])) =>
          /\ returned.decoded.raised = NoError
          /\ returned.decoded.card \in Universe
          /\ returned.encoded = call.args[1]

\* C14 witness: a valid encoding was decoded to a card and encoded again
C14_Witness ==
    /\ call.method = "from_shorthand"
    /\ returned.called
    /\ call.args[1] = <<"3", "p", "h", "s">>
    /\ returned.decoded.card = Card(3, "purple", "hatched", "squiggle")
    /\ Len(returned.encoded) = 4

\* C15: the discard list is append-only: a successful remove_set appends
\* exactly one entry, the three distinct cards of its arguments, which form a
\* valid set and were all on the table just before, and leaves the earlier
\* entries as they were; a failed call leaves the list unchanged; no
\* discarded card is ever in the draw pile or on the table again.
C15_AppendOnly ==
    /\ [][
          /\ (result' = "ok") =>
                (/\ Len(discard') = Len(discard) + 1
                 /\ SubSeq(discard', 1, Len(discard)) = discard
                 /\ discard'[Len(discard')] = Range(args')
                 /\ discard'[Len(discard')] \subseteq Range(active))
          /\ (result' # "ok") => (discard' = discard)
          /\ Flatten(discard) \cap (draw' \cup Range(active')) = {}
       ]_vars
    /\ [](/\ \A i \in 1..Len(discard) :
                (/\ Cardinality(discard[i]) = 3
                 /\ \A a, b, c \in discard[i] :
                       Cardinality({a, b, c}) = 3 => ValidSet(a, b, c))
           /\ Flatten(discard) \cap (draw \cup Range(active)) = {})

\* C15 witness: a third set was appended to the discard list
C15_Witness ==
    /\ result = "ok"
    /\ Len(discard) = 3
    /\ discard[3] = Range(args)
    /\ discard[1] # discard[3]

\* C16: when a successful remove_set deals replacements (draw pile not empty,
\* fewer than 12 cards left), the new cards stand at the three places of the
\* removed cards and every other card keeps its place; when it deals none,
\* the remaining cards keep their order; the cards the replenishment rule
\* deals afterwards come after all of them.
C16_Positions ==
    [][(result' = "ok") =>
         IF draw # {} /\ Len(active) - 3 < 12
         THEN /\ Len(active') >= Len(active)
              /\ \A i \in 1..Len(active) :
                    IF active[i] \in Range(args')
                    THEN active'[i] \in draw
                    ELSE active'[i] = active[i]
              /\ \A i \in (Len(active) + 1)..Len(active') : active'[i] \in draw
         ELSE LET rest == SelectSeq(active, LAMBDA card : card \notin Range(args'))
              IN  /\ Len(rest) = Len(active) - 3
                  /\ SubSeq(active', 1, Len(rest)) = rest
                  /\ \A i \in (Len(rest) + 1)..Len(active') : active'[i] \in draw
    ]_vars

\* C16 witness: replacement cards were inserted before other cards of the
\* layout, and the replenishment rule then dealt three more at the end
C16_Witness ==
    /\ result = "ok"
    /\ Len(deals) = 2
    /\ deals[1].replace
    /\ deals[1].pos[3] < 11
    /\ ~deals[2].replace
    /\ SubSeq(active, 13, 15) = deals[2].deal

\* C17: in a game that is IN_GAME, remove_set with arguments that are not
\* three distinct cards fails with the not-unique error, and remove_set with
\* three distinct cards of which one is not on the table fails with the
\* not-active error, also when the three cards form a valid set; both leave
\* draw, active, discard and state unchanged.
C17_NotUniqueNotActive ==
    [][(state = IN_GAME) =>
         /\ (Cardinality(Range(args')) # 3) =>
               (/\ result' = "cards are not unique"
                /\ UNCHANGED <<draw, active, discard, state>>)
         /\ (/\ Cardinality(Range(args')) = 3
             /\ \E card \in Range(args') : card \notin Range(active)) =>
               (/\ result' = "card is not active"
                /\ UNCHANGED <<draw, active, discard, state>>)
    ]_vars

\* C17 witness: a call with three distinct cards that form a valid set, one
\* of them not on the table, was refused
C17_Witness ==
    /\ state = IN_GAME
    /\ result = "card is not active"
    /\ Cardinality(Range(args)) = 3
    /\ ValidSet(args[1], args[2], args[3])
    /\ args[3] \notin Range(active)

\* C18: the sizes of the draw pile and of the active layout are multiples of
\* 3 in every reachable state, and every deal finds in the draw pile at least
\* the number of cards it asks for and deals exactly that number: no sample
\* is taken from a smaller pile, no batch of 1 or 2 cards is dealt.
C18_MultiplesOfThree ==
    /\ Cardinality(draw) % 3 = 0
    /\ Len(active) % 3 = 0
    /\ result # "Sample larger than population"
    /\ \A i \in 1..Len(deals) :
          /\ deals[i].pile >= deals[i].n
          /\ deals[i].pile % 3 = 0
          /\ Len(deals[i].deal) = deals[i].n
          /\ Cardinality(Range(deals[i].deal)) = deals[i].n

\* C18 witness: the last three cards of the draw pile were dealt
C18_Witness ==
    /\ draw = {}
    /\ \E i \in 1..Len(deals) :
          /\ deals[i].n = 3
          /\ deals[i].pile = 3
          /\ Len(deals[i].deal) = 3

\* the deals of the last operation that the replenishment rule made: those
\* without positions, but for the 12 cards a new game starts with
ReplenishmentDeals ==
    {i \in 1..Len(deals) : ~deals[i].replace /\ (result = "new" => i > 1)}

\* C19: every run of the replenishment rule ends, with a set on the table or
\* with GAME_OVER on an empty draw pile; each of its iterations that deals
\* found no set on the table and takes exactly 3 cards off the draw pile, and
\* a run makes at most 27 of them.
C19_ReplenishmentEnds ==
    /\ Cardinality(ReplenishmentDeals) <= 27
    /\ \A i \in ReplenishmentDeals :
          /\ ~ExistsSet(deals[i].before)
          /\ deals[i].pile > 0
          /\ deals[i].pile - 3 = IF i < Len(deals)
                                 THEN deals[i + 1].pile
                                 ELSE Cardinality(draw)
    /\ result \in {"new", "ok"} =>
          \/ state = IN_GAME /\ ExistsSet(active)
          \/ state = GAME_OVER /\ draw = {} /\ ~ExistsSet(active)

\* C19 witness: a run of the replenishment rule that dealt twice in a row
\* before a set came up
C19_Witness ==
    /\ state = IN_GAME
    /\ Cardinality(ReplenishmentDeals) >= 2
    /\ deals[Len(deals)].pile = deals[Len(deals) - 1].pile - 3
    /\ ~deals[Len(deals) - 1].replace
    /\ ExistsSet(active)

\* C20: the active layout holds at most 21 cards in every reachable state.
C20_AtMostTwentyOne == Len(active) <= 21

\* C20 witness: a layout of 21 cards, 20 of which hold no set
C20_Witness ==
    /\ Len(active) = 21
    /\ ~ExistsSet(SubSeq(active, 1, 20))
    /\ ExistsSet(active)

====
